---- MODULE Spec2Model ----
(***************************************************************************)
(* machine-sync: a directory watcher that mirrors local file changes to a  *)
(* remote machine over one shared SFTP client (src/main.go).               *)
(*                                                                         *)
(* The model follows the goroutines of watch(): the main goroutine (flag   *)
(* check, configuration, key, dial, SFTP client, watcher, Watch, <-done),  *)
(* the dispatch loop (main.go:145-156), the error drain loop               *)
(* (main.go:158-165) and one goroutine per event running handleEvent       *)
(* (main.go:176-214).  Each step is one blocking call of the code.  The    *)
(* local file system, the remote file system behind the SFTP client and    *)
(* the fsnotify watcher are the environment.                               *)
(***************************************************************************)
EXTENDS Integers, Sequences, FiniteSets, TLC

VARIABLES
    flags,      \* the command line: directory, machine, destination, user
    mainPc,     \* position of the main goroutine in main()/watch()
    srcPath,    \* main.go:30, set at main.go:88
    destPath,   \* main.go:31, set at main.go:89
    config,     \* the decoded MachineConfig (main.go:97)
    dialed,     \* host:port handed to ssh.Dial (main.go:129), "" before
    rsftp,      \* main.go:36: "nil" or "client"
    mutex,      \* main.go:35: "unlocked" or "locked"
    loops,      \* TRUE once the two loop goroutines are started (145, 158)
    watching,   \* TRUE once watcher.Watch has succeeded (main.go:167)
    closed,     \* TRUE once watcher.Close has run (main.go:173)
    eventQ,     \* events waiting on watcher.Event
    units,      \* one record per goroutine started at main.go:150
    errorChan,  \* values sent on errorChan (main.go:95), in order
    drained,    \* number of values the drain loop has received (main.go:161)
    panicked,   \* TRUE once a goroutine has panicked: the process is gone
    local,      \* the local file system, by path
    remote      \* the remote file system, by path

vars == <<flags, mainPc, srcPath, destPath, config, dialed, rsftp, mutex,
          loops, watching, closed, eventQ, units, errorChan,
          drained, panicked, local, remote>>

-----------------------------------------------------------------------------
(* Bounds of the model *)

\* how many change notifications the watcher delivers in a run
MaxEvents == 2

-----------------------------------------------------------------------------
(* Values *)

\* sshPort := 22 (main.go:116)
DefaultSSHPort == 22

\* ip := "127.0.0.1" (main.go:122)
DefaultIP == "127.0.0.1"

\* file contents are sequences of blocks: a remote write that fails may have
\* written the first blocks of its data
Hello == <<"he", "llo">>
Bye == <<"bye">>
Old == <<"ol", "d">>

\* contents the user writes into local files
Contents == {Hello, Bye}

FileNames == {"notes.txt", "a.txt"}

\* values of the four required flags; "" is a flag left out
DirectoryFlags == {"", "/src"}
MachineFlags == {"", "dev"}
DestinationFlags == {"", "/dest"}
UserFlags == {"", "root"}

\* config.json of the machine, as decoded at main.go:80
ConfigFiles ==
    { [IPAddress |-> "", SSHPort |-> 0],
      [IPAddress |-> "192.168.99.100", SSHPort |-> 2222] }

NoConfig == [IPAddress |-> "", SSHPort |-> 0]

\* fmt.Sprintf("%s:%d", ip, sshPort) (main.go:129) for the ports in use
PortString(p) ==
    CASE p = 22 -> "22"
      [] p = 2222 -> "2222"
      [] p = 0 -> "0"

-----------------------------------------------------------------------------
(* Paths *)

\* the name fsnotify puts in FileEvent.Name: the watched path, a slash, and
\* the file's name in the directory.  It is the path handleEvent opens
\* (main.go:189), so it is a path of the local file system.
EventName(dir, f) == dir \o "/" \o f

\* a mapping that sends every event to one remote path
filePathConstant(dest, name) == dest \o "/" \o "notes.txt"

\* filePath := fmt.Sprintf("%s/%s", destPath, evt.Name) (main.go:179)
filePath(dest, name) == dest \o "/" \o name

LocalPaths == { EventName(d, f) : d \in DirectoryFlags \ {""}, f \in FileNames }

\* the remote paths of the model: under the destination, the local paths
\* appended as they are, and the file names alone
RemotePaths ==
    { d \o "/" \o n : d \in DestinationFlags \ {""}, n \in LocalPaths }
    \cup { d \o "/" \o f : d \in DestinationFlags \ {""}, f \in FileNames }

-----------------------------------------------------------------------------
(* Files *)

NoLocalFile == [exists |-> FALSE, data |-> <<>>]
LocalFile(d) == [exists |-> TRUE, data |-> d]

\* a remote file is an inode (ino) linked at a path; ino 0 is a file that
\* was there before the program started, ino u the file unit u created
NoRemoteFile == [exists |-> FALSE, ino |-> 0, data |-> <<>>]
RemoteFile(i, d) == [exists |-> TRUE, ino |-> i, data |-> d]

\* the descriptor os.Open returns: live while its file is still linked at the
\* path it was opened by, data what a read of it returns
NoFd == [open |-> FALSE, live |-> FALSE, data |-> <<>>]
Fd(d) == [open |-> TRUE, live |-> TRUE, data |-> d]

Prefix(d, k) == SubSeq(d, 1, k)

\* a write of d at offset 0 of a file holding old
WriteAt0(old, d) == d \o SubSeq(old, Len(d) + 1, Len(old))

-----------------------------------------------------------------------------
(* Events and handling units *)

Kinds == {"create", "modify", "delete", "rename"}

Event(n, k) == [Name |-> n, kind |-> k]

\* FileEvent.IsDelete
IsDelete(ev) == ev.kind = "delete"

\* the goroutine started by `go handleEvent(ev, errorChan)`
NewUnit(ev) ==
    [ ev      |-> ev,
      pc      |-> "start",
      result  |-> "running",
      ops     |-> <<>>,         \* the calls made so far, with their outcome
      logged  |-> 0,            \* calls of log.Error
      fd      |-> NoFd,         \* localFile
      handle  |-> -1,           \* remoteFile: the inode it writes to
      data    |-> <<>> ]        \* data, as read at main.go:204

\* a call of the local file system ("open", "read") or of the SFTP client
\* ("remove", "create", "write"), the path it is about, whether it returned
\* without an error
Op(o, p, ok) == [op |-> o, path |-> p, ok |-> ok]

RemoteOps == {"remove", "create", "write"}

UnitIds == 1 .. Len(units)

Emitted == Len(units) + Len(eventQ)

\* the process is running: not exited through log.Fatal or a return of
\* main, and no goroutine has panicked
Alive == mainPc # "exited" /\ ~panicked

-----------------------------------------------------------------------------
(* Initial state: the process has been started with some command line.     *)
(* Locally notes.txt is there, holding "hello", or is not; remotely the    *)
(* mapped path of notes.txt holds an old file.  There is no a.txt yet.     *)

Init ==
    /\ flags \in [ directory : DirectoryFlags, machine : MachineFlags,
                   destination : DestinationFlags, user : UserFlags ]
    /\ mainPc = "checkFlags"
    /\ srcPath = ""
    /\ destPath = ""
    /\ config = NoConfig
    /\ dialed = ""
    /\ rsftp = "nil"
    /\ mutex = "unlocked"
    /\ loops = FALSE
    /\ watching = FALSE
    /\ closed = FALSE
    /\ eventQ = <<>>
    /\ units = <<>>
    /\ errorChan = <<>>
    /\ drained = 0
    /\ panicked = FALSE
    /\ local \in { [ p \in LocalPaths |->
                        IF p = EventName("/src", "notes.txt") THEN f
                        ELSE NoLocalFile ] :
                    f \in {NoLocalFile, LocalFile(Hello)} }
    /\ remote = [ p \in RemotePaths |->
                    IF p = "/dest//src/notes.txt"
                    THEN RemoteFile(0, Old) ELSE NoRemoteFile ]

-----------------------------------------------------------------------------
(* The main goroutine *)

\* a check that leaves out the user flag
checkFlagsOkNoUser(f) ==
    /\ f.directory # ""
    /\ f.machine # ""
    /\ f.destination # ""

\* checkFlags (main.go:39-65), run as app.Before: on an error the cli
\* library does not run the action and main returns
checkFlagsOk(f) ==
    /\ f.directory # ""
    /\ f.machine # ""
    /\ f.destination # ""
    /\ f.user # ""

CheckFlags ==
    /\ mainPc = "checkFlags"
    /\ mainPc' = IF checkFlagsOk(flags) THEN "loadConfig" ELSE "exited"
    /\ UNCHANGED <<flags, srcPath, destPath, config, dialed, rsftp, mutex,
                   loops, watching, closed, eventQ, units,
                   errorChan, drained, panicked, local, remote>>

\* watch, main.go:88-100: the globals are set, then loadConfig
LoadConfig ==
    /\ mainPc = "loadConfig"
    /\ srcPath' = flags.directory
    /\ destPath' = flags.destination
    /\ \/ \E c \in ConfigFiles : config' = c /\ mainPc' = "loadPEM"
       \/ config' = config /\ mainPc' = "exited"
    /\ UNCHANGED <<flags, dialed, rsftp, mutex, loops, watching, closed,
                   eventQ, units, errorChan, drained, panicked,
                   local, remote>>

\* watch, main.go:102-107: kc.loadPEM, fatal on an error
LoadPEM ==
    /\ mainPc = "loadPEM"
    /\ \/ mainPc' = "dial"
       \/ mainPc' = "exited"
    /\ UNCHANGED <<flags, srcPath, destPath, config, dialed, rsftp, mutex,
                   loops, watching, closed, eventQ, units,
                   errorChan, drained, panicked, local, remote>>

\* main.go:116-120
sshPort(c) == IF c.SSHPort # 0 THEN c.SSHPort ELSE DefaultSSHPort

\* a host taken from the configuration as it is
ipNoDefault(c) == c.IPAddress

\* main.go:122-125
ip(c) == IF c.IPAddress # "" THEN c.IPAddress ELSE DefaultIP

\* watch, main.go:109-132: ssh.Dial, fatal on an error
Dial ==
    /\ mainPc = "dial"
    /\ dialed' = ip(config) \o ":" \o PortString(sshPort(config))
    /\ \/ mainPc' = "newClient"
       \/ mainPc' = "exited"
    /\ UNCHANGED <<flags, srcPath, destPath, config, rsftp, mutex, loops,
                   watching, closed, eventQ, units, errorChan,
                   drained, panicked, local, remote>>

\* the value of rsftp after main.go:134-135, given whether sftp.NewClient
\* returned an error: the error is not looked at, the client it returned with
\* the error (nil) is stored
clientAfterNewClient(ok) == IF ok THEN "client" ELSE "nil"

\* where the main goroutine goes after main.go:134-135
pcAfterNewClient(ok) == "newWatcher"

\* watch, main.go:134-138: sftp.NewClient
NewClient ==
    /\ mainPc = "newClient"
    /\ \E ok \in BOOLEAN :
          /\ rsftp' = clientAfterNewClient(ok)
          /\ mainPc' = pcAfterNewClient(ok)
    /\ UNCHANGED <<flags, srcPath, destPath, config, dialed, mutex, loops,
                   watching, closed, eventQ, units, errorChan,
                   drained, panicked, local, remote>>

\* watch, main.go:140-165: fsnotify.NewWatcher, fatal on an error; then the
\* dispatch loop and the drain loop are started
NewWatcher ==
    /\ mainPc = "newWatcher"
    /\ \/ mainPc' = "watch" /\ loops' = TRUE
       \/ mainPc' = "exited" /\ loops' = loops
    /\ UNCHANGED <<flags, srcPath, destPath, config, dialed, rsftp, mutex,
                   watching, closed, eventQ, units, errorChan,
                   drained, panicked, local, remote>>

\* a watch that does not wait on done: it goes on to watcher.Close and returns
pcAfterWatchReturns(ok) == "exited"

\* where the main goroutine goes after watcher.Watch (main.go:167-172): to
\* log.Fatal on an error, else to `<-done`, which nothing sends on
pcAfterWatch(ok) == IF ok THEN "waitDone" ELSE "exited"

\* watch, main.go:167-172: watcher.Watch, fatal on an error; then the main
\* goroutine waits on done
Watch ==
    /\ mainPc = "watch"
    /\ \E ok \in BOOLEAN :
          /\ mainPc' = pcAfterWatch(ok)
          /\ watching' = ok
    /\ UNCHANGED <<flags, srcPath, destPath, config, dialed, rsftp, mutex,
                   loops, closed, eventQ, units, errorChan,
                   drained, panicked, local, remote>>

-----------------------------------------------------------------------------
(* The environment: the user's changes to the watched directory, as the    *)
(* watcher reports them                                                    *)

\* descriptors of path p that handling units hold, after a change of the
\* file at p: an in-place write shows through a live descriptor, an unlink
\* detaches it
FdsAfterWrite(p, d) ==
    [ u \in UnitIds |->
        IF units[u].ev.Name = p /\ units[u].fd.open /\ units[u].fd.live
        THEN [units[u] EXCEPT !.fd.data = d] ELSE units[u] ]

FdsAfterUnlink(p) ==
    [ u \in UnitIds |->
        IF units[u].ev.Name = p /\ units[u].fd.open
        THEN [units[u] EXCEPT !.fd.live = FALSE] ELSE units[u] ]

EnvFrame ==
    UNCHANGED <<flags, mainPc, srcPath, destPath, config, dialed, rsftp,
                mutex, loops, watching, closed, errorChan,
                drained, panicked, remote>>

\* the user creates a file or writes a file in place (a write of the
\* content it already has is a touch)
LocalWrite(p, d) ==
    /\ Alive /\ watching /\ Emitted < MaxEvents
    /\ local' = [local EXCEPT ![p] = LocalFile(d)]
    /\ eventQ' = Append(eventQ,
                   Event(p, IF local[p].exists THEN "modify" ELSE "create"))
    /\ units' = IF local[p].exists THEN FdsAfterWrite(p, d) ELSE units
    /\ EnvFrame

\* the user deletes a file
LocalDelete(p) ==
    /\ Alive /\ watching /\ Emitted < MaxEvents
    /\ local[p].exists
    /\ local' = [local EXCEPT ![p] = NoLocalFile]
    /\ eventQ' = Append(eventQ, Event(p, "delete"))
    /\ units' = FdsAfterUnlink(p)
    /\ EnvFrame

\* the user moves a file out of the watched directory
LocalRename(p) ==
    /\ Alive /\ watching /\ Emitted < MaxEvents
    /\ local[p].exists
    /\ local' = [local EXCEPT ![p] = NoLocalFile]
    /\ eventQ' = Append(eventQ, Event(p, "rename"))
    /\ units' = FdsAfterUnlink(p)
    /\ EnvFrame

-----------------------------------------------------------------------------
(* The dispatch loop, main.go:145-156 *)

\* a loop that starts no unit for an event it has already started one for
DispatchStartsCoalescing(ev) ==
    IF \E u \in UnitIds : units[u].ev = ev THEN <<>> ELSE <<NewUnit(ev)>>

\* case ev := <-watcher.Event: go handleEvent(ev, errorChan)
DispatchStarts(ev) == <<NewUnit(ev)>>

\* a loop that calls handleEvent in line: it waits for the units still running
DispatchWaitsForRunning == { u \in UnitIds : units[u].pc # "done" }

\* the units the loop waits for before it takes the next event: none, the
\* handler is started with `go` (main.go:150)
DispatchWaitsFor == {}

Dispatch ==
    /\ Alive /\ loops
    /\ eventQ # <<>>
    /\ DispatchWaitsFor = {}
    /\ units' = units \o DispatchStarts(Head(eventQ))
    /\ eventQ' = Tail(eventQ)
    /\ UNCHANGED <<flags, mainPc, srcPath, destPath, config, dialed, rsftp,
                   mutex, loops, watching, closed, errorChan,
                   drained, panicked, local, remote>>

\* case err := <-watcher.Error: log.Debug.  watcher.Error is unbuffered: the
\* watcher's send and this receive are one step, and the loop goes on with
\* nothing changed
LogWatcherError ==
    /\ Alive /\ loops /\ watching
    /\ UNCHANGED vars

-----------------------------------------------------------------------------
(* handleEvent, main.go:176-214: one goroutine per event.  Every call on   *)
(* rsftp is one step.  A call on the nil client dereferences nil: the      *)
(* goroutine panics and the process ends.                                  *)

UnitFrame ==
    UNCHANGED <<flags, mainPc, srcPath, destPath, config, dialed, rsftp,
                mutex, loops, watching, closed, eventQ, errorChan, drained, local>>

Panic ==
    /\ panicked' = TRUE
    /\ UNCHANGED <<units, remote>>

\* the mapped path of unit record r
PathOf(r) == filePath(destPath, r.ev.Name)

\* `log.Error(err); return` (main.go:183-184, 191-192, 199-200, 206-207,
\* 210-211): the error is logged, nothing is sent on errChan
Fail(r) ==
    [r EXCEPT !.pc = "done", !.result = "failed", !.logged = @ + 1,
              !.fd = NoFd, !.handle = -1]

\* the function returns at main.go:214; its locals are gone (data is kept
\* as the record of what was read)
Finish(r) ==
    [r EXCEPT !.pc = "done", !.result = "ok", !.fd = NoFd, !.handle = -1]

\* rsftp.Remove(p): unlinks the file at p; an error when there is none, or
\* when the server refuses
RemoveResult(p, ok) == IF ok THEN [remote EXCEPT ![p] = NoRemoteFile] ELSE remote

\* a delete branch that falls through to the update branch
afterDeleteRemoveFallsThrough(r, ok) ==
    [r EXCEPT !.ops = Append(@, Op("remove", PathOf(r), ok)), !.pc = "create"]

\* main.go:180-185: the unit record after rsftp.Remove in the delete branch
afterDeleteRemove(r, ok) ==
    LET r2 == [r EXCEPT !.ops = Append(@, Op("remove", PathOf(r), ok))]
    IN  IF ok THEN Finish(r2) ELSE Fail(r2)

\* a handler that takes the lock before its first remote call and holds it
\* until it returns: it waits while another unit is in its remote sequence
LockWaitsForSequence(u) ==
    { v \in UnitIds \ {u} : units[v].pc \in {"create", "read", "write"} }

\* the units that unit u waits for before its first remote call: none,
\* handleEvent never locks mutex (main.go:35, 176-214)
LockWaitsFor(u) == {}

HandleDelete(u) ==
    /\ Alive
    /\ units[u].pc = "start"
    /\ IsDelete(units[u].ev)
    /\ LockWaitsFor(u) = {}
    /\ IF rsftp = "nil" THEN Panic
       ELSE \E ok \in BOOLEAN :
              /\ ok => remote[PathOf(units[u])].exists
              /\ remote' = RemoveResult(PathOf(units[u]), ok)
              /\ units' = [units EXCEPT ![u] = afterDeleteRemove(@, ok)]
              /\ panicked' = panicked
    /\ UnitFrame

\* an open whose failure is not checked
afterOpenIgnoresError(r, ok, d) ==
    [r EXCEPT !.ops = Append(@, Op("open", r.ev.Name, ok)),
              !.fd = IF ok THEN Fd(d) ELSE NoFd, !.pc = "remove"]

\* main.go:189-193: the unit record after os.Open(evt.Name)
afterOpen(r, ok, d) ==
    LET r2 == [r EXCEPT !.ops = Append(@, Op("open", r.ev.Name, ok))]
    IN  IF ok THEN [r2 EXCEPT !.fd = Fd(d), !.pc = "remove"] ELSE Fail(r2)

OpenLocal(u) ==
    /\ Alive
    /\ units[u].pc = "start"
    /\ ~IsDelete(units[u].ev)
    /\ \E ok \in BOOLEAN :
          /\ ok => local[units[u].ev.Name].exists
          /\ units' = [units EXCEPT
                         ![u] = afterOpen(@, ok, local[units[u].ev.Name].data)]
    /\ UNCHANGED <<remote, panicked>>
    /\ UnitFrame

\* a remove whose failure ends the unit
afterRemoveOldChecked(r, ok) ==
    LET r2 == [r EXCEPT !.ops = Append(@, Op("remove", PathOf(r), ok))]
    IN  IF ok THEN [r2 EXCEPT !.pc = "create"] ELSE Fail(r2)

\* main.go:194-195: `_ = rsftp.Remove(filePath)`, the error is dropped
afterRemoveOld(r, ok) ==
    [r EXCEPT !.ops = Append(@, Op("remove", PathOf(r), ok)), !.pc = "create"]

RemoveOld(u) ==
    /\ Alive
    /\ units[u].pc = "remove"
    /\ LockWaitsFor(u) = {}
    /\ IF rsftp = "nil" THEN Panic
       ELSE \E ok \in BOOLEAN :
              /\ ok => remote[PathOf(units[u])].exists
              /\ remote' = RemoveResult(PathOf(units[u]), ok)
              /\ units' = [units EXCEPT ![u] = afterRemoveOld(@, ok)]
              /\ panicked' = panicked
    /\ UnitFrame

\* rsftp.Create(p): opens p with O_RDWR|O_CREATE|O_TRUNC: a new file (inode
\* u) when there is none, the file that is there, emptied, otherwise
CreateResult(p, u, ok) ==
    IF ~ok THEN remote
    ELSE IF remote[p].exists THEN [remote EXCEPT ![p].data = <<>>]
    ELSE [remote EXCEPT ![p] = RemoteFile(u, <<>>)]

\* the inode the handle of a successful rsftp.Create(p) by unit u refers to
CreatedIno(p, u) == IF remote[p].exists THEN remote[p].ino ELSE u

\* main.go:197-201: the unit record after rsftp.Create
afterCreate(r, ok, ino) ==
    LET r2 == [r EXCEPT !.ops = Append(@, Op("create", PathOf(r), ok))]
    IN  IF ok THEN [r2 EXCEPT !.handle = ino, !.pc = "read"] ELSE Fail(r2)

CreateRemote(u) ==
    /\ Alive
    /\ units[u].pc = "create"
    /\ IF rsftp = "nil" THEN Panic
       ELSE \E ok \in BOOLEAN :
              /\ remote' = CreateResult(PathOf(units[u]), u, ok)
              /\ units' = [units EXCEPT
                     ![u] = afterCreate(@, ok, CreatedIno(PathOf(units[u]), u))]
              /\ panicked' = panicked
    /\ UnitFrame

\* main.go:204-208: the unit record after ioutil.ReadAll(localFile), which
\* returns what the descriptor's file holds now
afterRead(r, ok) ==
    LET r2 == [r EXCEPT !.ops = Append(@, Op("read", r.ev.Name, ok))]
    IN  IF ok
        THEN [r2 EXCEPT !.data = r.fd.data, !.fd.data = <<>>, !.pc = "write"]
        ELSE Fail(r2)

ReadLocal(u) ==
    /\ Alive
    /\ units[u].pc = "read"
    /\ \E ok \in BOOLEAN : units' = [units EXCEPT ![u] = afterRead(@, ok)]
    /\ UNCHANGED <<remote, panicked>>
    /\ UnitFrame

\* remoteFile.Write(data) through a handle on inode ino of path p: the first
\* n bytes land at offset 0 of that inode.  The inode is visible at p only
\* while it is still the file linked there.
WriteResult(p, ino, d, n) ==
    IF remote[p].exists /\ remote[p].ino = ino
    THEN [remote EXCEPT ![p].data = WriteAt0(@, Prefix(d, n))]
    ELSE remote

\* a write whose error is not checked
afterWriteIgnoresError(r, ok) ==
    Finish([r EXCEPT !.ops = Append(@, Op("write", PathOf(r), ok))])

\* a write that is tried again from the remote remove when it fails
afterWriteRetries(r, ok) ==
    LET r2 == [r EXCEPT !.ops = Append(@, Op("write", PathOf(r), ok))]
    IN  IF ok THEN Finish(r2) ELSE [r2 EXCEPT !.pc = "remove"]

\* main.go:209-213: the unit record after remoteFile.Write
afterWrite(r, ok) ==
    LET r2 == [r EXCEPT !.ops = Append(@, Op("write", PathOf(r), ok))]
    IN  IF ok THEN Finish(r2) ELSE Fail(r2)

WriteRemote(u) ==
    /\ Alive
    /\ units[u].pc = "write"
    /\ IF rsftp = "nil" THEN Panic
       ELSE \E n \in 0 .. Len(units[u].data) :
              /\ remote' = WriteResult(PathOf(units[u]), units[u].handle,
                                       units[u].data, n)
              /\ units' = [units EXCEPT
                             ![u] = afterWrite(@, n = Len(units[u].data))]
              /\ panicked' = panicked
    /\ UnitFrame

\* the next step of unit u, whichever it is
UnitStep(u) ==
    \/ HandleDelete(u)
    \/ OpenLocal(u)
    \/ RemoveOld(u)
    \/ CreateRemote(u)
    \/ ReadLocal(u)
    \/ WriteRemote(u)

\* the drain loop, main.go:158-165: `case err := <-errorChan`.  It is
\* enabled when a value has been sent and not yet received.
DrainEnabled == loops /\ Alive /\ drained < Len(errorChan)

-----------------------------------------------------------------------------

Next ==
    \/ CheckFlags
    \/ LoadConfig
    \/ LoadPEM
    \/ Dial
    \/ NewClient
    \/ NewWatcher
    \/ Watch
    \/ \E p \in LocalPaths, d \in Contents : LocalWrite(p, d)
    \/ \E p \in LocalPaths : LocalDelete(p)
    \/ \E p \in LocalPaths : LocalRename(p)
    \/ Dispatch
    \/ LogWatcherError
    \/ \E u \in UnitIds : HandleDelete(u)
    \/ \E u \in UnitIds : OpenLocal(u)
    \/ \E u \in UnitIds : RemoveOld(u)
    \/ \E u \in UnitIds : CreateRemote(u)
    \/ \E u \in UnitIds : ReadLocal(u)
    \/ \E u \in UnitIds : WriteRemote(u)

Spec == Init /\ [][Next]_vars

-----------------------------------------------------------------------------
(* Vocabulary of the properties *)

IsUpdate(r) == ~IsDelete(r.ev)

\* remoteBasePath + "/" + event.path
Mapped(r) == destPath \o "/" \o r.ev.Name

DoneOk(r) == r.pc = "done" /\ r.result = "ok"

\* the remote file at path p holds exactly d
RemoteHolds(rem, p, d) == rem[p].exists /\ rem[p].data = d

\* unit u is between its remote remove (step 2) and the end of its remote
\* write (step 4)
InRemoteSequence(u) == units[u].pc \in {"create", "read", "write"}

\* the values unit u has sent on the error channel
SentBy(u) == { i \in 1 .. Len(errorChan) : errorChan[i] = u }

\* the step of unit u in which handleEvent returns without a failure
Completes(u) ==
    /\ units[u].pc # "done"
    /\ units'[u].pc = "done"
    /\ units'[u].result = "ok"

-----------------------------------------------------------------------------
(* C1: at any time at most one handling unit is inside its remote          *)
(* operation sequence (between its remote remove and the end of its remote *)
(* write), so that the calls of two units never interleave.                *)
C1_MutualExclusion ==
    Cardinality({ u \in UnitIds : InRemoteSequence(u) }) <= 1

(* C2: a handling unit that has failed has delivered exactly one failure   *)
(* to the error channel, a unit that has succeeded none.                   *)
C2_FailureDelivered ==
    \A u \in UnitIds :
        units[u].pc = "done" =>
            Cardinality(SentBy(u)) = IF units[u].result = "failed" THEN 1 ELSE 0

(* C3: when the handling unit of a Created, Modified or Renamed event      *)
(* completes without a failure, the remote file at the mapped path holds   *)
(* exactly the bytes the unit read from the local file.                    *)
C3_UpdateWritesContent ==
    [][ \A u \in UnitIds :
          (IsUpdate(units[u]) /\ Completes(u)) =>
              RemoteHolds(remote', Mapped(units[u]), units'[u].data) ]_vars

(* C4: the handling unit of a Deleted event makes exactly one call, a      *)
(* remote remove of the mapped path, whether it succeeds or fails, and no  *)
(* remote create or write.                                                 *)
C4_DeleteIssuesOneRemove ==
    \A u \in UnitIds :
        IsDelete(units[u].ev) =>
            /\ units[u].pc \in {"start", "done"}
            /\ units[u].pc = "start" => units[u].ops = <<>>
            /\ units[u].pc = "done" =>
                  units[u].ops = << Op("remove", Mapped(units[u]),
                                       units[u].result = "ok") >>

\* a Deleted event whose remote remove was refused has been handled
C4_Witness ==
    \E u \in UnitIds :
        /\ IsDelete(units[u].ev)
        /\ units[u].pc = "done"
        /\ units[u].result = "failed"
        /\ Len(units[u].ops) = 1

(* C5: with watch root /src and destination /dest, once the Created event  *)
(* of /src/notes.txt holding "hello" has been handled the remote file      *)
(* /dest/notes.txt holds "hello", and once a following Deleted event of    *)
(* /src/notes.txt has been handled there is no remote file /dest/notes.txt *)
C5_EndToEnd ==
    [][ /\ \A u \in UnitIds :
             ( /\ srcPath = "/src" /\ destPath = "/dest"
               /\ units[u].ev = Event("/src/notes.txt", "create")
               /\ \A v \in UnitIds \ {u} : units[v].pc = "done"
               /\ Completes(u)
               /\ units'[u].data = Hello )
             => RemoteHolds(remote', "/dest/notes.txt", Hello)
        /\ \A u, v \in UnitIds :
             ( /\ srcPath = "/src" /\ destPath = "/dest"
               /\ units[u].ev = Event("/src/notes.txt", "create")
               /\ DoneOk(units[u])
               /\ units[v].ev = Event("/src/notes.txt", "delete")
               /\ Completes(v) )
             => ~remote'["/dest/notes.txt"].exists ]_vars

(* C6: two Created/Modified/Renamed events for two different paths,        *)
(* handled concurrently with no other unit on either path: when both units *)
(* have finished without a failure, each remote file holds what its own    *)
(* unit read from its own local file.                                      *)
C6_DistinctPathsIndependent ==
    \A u, v \in UnitIds :
        ( /\ IsUpdate(units[u]) /\ IsUpdate(units[v])
          /\ units[u].ev.Name # units[v].ev.Name
          /\ DoneOk(units[u]) /\ DoneOk(units[v])
          /\ \A w \in UnitIds \ {u, v} :
                units[w].ev.Name \notin {units[u].ev.Name, units[v].ev.Name} )
        => /\ RemoteHolds(remote, Mapped(units[u]), units[u].data)
           /\ RemoteHolds(remote, Mapped(units[v]), units[v].data)

\* both units are done, one has mirrored "bye" and the other "hello"
C6_Witness ==
    \E u, v \in UnitIds :
        /\ IsUpdate(units[u]) /\ IsUpdate(units[v])
        /\ units[u].ev.Name # units[v].ev.Name
        /\ DoneOk(units[u]) /\ DoneOk(units[v])
        /\ units[u].data = Bye /\ units[v].data = Hello
        /\ RemoteHolds(remote, Mapped(units[u]), Bye)
        /\ RemoteHolds(remote, Mapped(units[v]), Hello)

(* C7: when the local file of a Created/Modified/Renamed event cannot be   *)
(* opened, the open is the only call the handling unit makes: no remote    *)
(* remove, create or write.                                                *)
C7_OpenFailureNoRemoteOps ==
    \A u \in UnitIds :
        ( /\ IsUpdate(units[u])
          /\ units[u].ops # <<>>
          /\ ~units[u].ops[1].ok )
        => /\ units[u].ops = << Op("open", units[u].ev.Name, FALSE) >>
           /\ units[u].pc = "done"

\* the event of a file that is no longer there has been handled, and the
\* old remote file is as it was
C7_Witness ==
    \E u \in UnitIds :
        /\ IsUpdate(units[u])
        /\ units[u].pc = "done"
        /\ units[u].ops = << Op("open", units[u].ev.Name, FALSE) >>
        /\ ~local[units[u].ev.Name].exists
        /\ remote[Mapped(units[u])] = RemoteFile(0, Old)

(* C8: in a Created/Modified/Renamed handling unit a failed remote remove  *)
(* is not reported and does not end the unit: the next call is the remote  *)
(* create, and after a successful create and read the remote write.        *)
C8_RemoveFailureSwallowed ==
    \A u \in UnitIds :
        LET r == units[u]
            n == Len(r.ops)
        IN  ( /\ IsUpdate(r)
              /\ n >= 2
              /\ r.ops[2] = Op("remove", Mapped(r), FALSE) )
            => /\ n = 2 => (r.pc = "create" /\ r.logged = 0)
               /\ n >= 3 => r.ops[3].op = "create"
               /\ (n = 4 /\ r.ops[3].ok /\ r.ops[4].ok) => r.pc = "write"
               /\ (n >= 5 /\ r.ops[3].ok /\ r.ops[4].ok) => r.ops[5].op = "write"
               /\ r.logged = Cardinality({ i \in 3 .. n : ~r.ops[i].ok })
               /\ SentBy(u) = {}

\* a file whose mapped remote path did not exist has been mirrored
C8_Witness ==
    \E u \in UnitIds :
        /\ IsUpdate(units[u])
        /\ DoneOk(units[u])
        /\ Len(units[u].ops) = 5
        /\ units[u].ops[2] = Op("remove", "/dest//src/a.txt", FALSE)
        /\ RemoteHolds(remote, "/dest//src/a.txt", units[u].data)

(* C9: once the handling of an event has failed the process is still       *)
(* running, and the dispatch loop still takes the next event.              *)
C9_FailureNotFatal ==
    (\E u \in UnitIds : units[u].result = "failed")
        => /\ Alive
           /\ eventQ # <<>> => ENABLED Dispatch

(* C10: a failure to establish the session is fatal: the directory is      *)
(* never watched, and no event is handed to a handling unit, without a     *)
(* valid transfer session.                                                 *)
C10_SessionFailureFatal ==
    (watching \/ units # <<>>) => rsftp = "client"

(* C11: the dispatch loop never waits for a handling unit: whenever the    *)
(* process is running and an event is waiting, the loop can take it and    *)
(* start its unit, however many units are in the middle of a call.         *)
C11_DispatchNeverBlocks ==
    (Alive /\ loops /\ eventQ # <<>>) => ENABLED Dispatch

\* an event is waiting while a unit is in the middle of its remote sequence
C11_Witness ==
    /\ Alive /\ loops /\ eventQ # <<>>
    /\ \E u \in UnitIds : units[u].pc \in {"create", "read", "write"}

(* C12: a handling unit whose call never returns blocks only itself: while *)
(* the process is running, every unit that has not finished can take its   *)
(* next step, whatever call the other units are in.                        *)
C12_HungUnitBlocksOnlyItself ==
    \A u \in UnitIds :
        (Alive /\ units[u].pc # "done") => ENABLED UnitStep(u)

\* a unit has finished all its calls while a unit dispatched before it stays
\* in its remote sequence
C12_Witness ==
    \E u, v \in UnitIds :
        /\ u < v
        /\ units[u].pc \in {"create", "write"}
        /\ DoneOk(units[v])
        /\ Len(units[v].ops) = 5

\* the units for the local path n that have made a call
StartedOn(n) == { w \in UnitIds : units[w].ev.Name = n /\ units[w].ops # <<>> }

(* C13: no ordering across events.  When a Deleted event of P and a later  *)
(* Created event of P, handled by two concurrent units, have both been     *)
(* handled without a failure, the remote file at the mapped path either    *)
(* holds what the Created unit read or is absent; the interleaving decides *)
(* which, and the witness is the outcome in which it is absent while the   *)
(* local file exists.                                                      *)
C13_DeleteRecreateRace ==
    \A u, v \in UnitIds :
        ( /\ u < v
          /\ IsDelete(units[u].ev)
          /\ units[v].ev = Event(units[u].ev.Name, "create")
          /\ DoneOk(units[u]) /\ DoneOk(units[v])
          /\ StartedOn(units[u].ev.Name) = {u, v} )
        => \/ ~remote[Mapped(units[v])].exists
           \/ RemoteHolds(remote, Mapped(units[v]), units[v].data)

\* the file was deleted and created again, both events have been handled
\* without a failure, and the remote file is absent while the local file
\* exists, holding what the Created unit read
C13_Witness ==
    \E u, v \in UnitIds :
        /\ u < v
        /\ IsDelete(units[u].ev)
        /\ units[v].ev = Event(units[u].ev.Name, "create")
        /\ DoneOk(units[u]) /\ DoneOk(units[v])
        /\ local[units[v].ev.Name] = LocalFile(units[v].data)
        /\ ~remote[Mapped(units[v])].exists

(* C14: idempotence.  When the same Modified event of P has been handled   *)
(* once or twice, without a failure and with the same bytes read each      *)
(* time, and no other unit has touched P, the remote file at the mapped    *)
(* path holds those bytes: the same after the second run as after the      *)
(* first.                                                                  *)
C14_ModifyIdempotent ==
    \A u \in UnitIds :
        LET n == units[u].ev.Name
        IN  ( /\ units[u].ev.kind = "modify"
              /\ u \in StartedOn(n)
              /\ \A w \in StartedOn(n) :
                    /\ units[w].ev = units[u].ev
                    /\ DoneOk(units[w])
                    /\ units[w].data = units[u].data )
            => RemoteHolds(remote, Mapped(units[u]), units[u].data)

\* the same Modified event has been handled twice, the local file is
\* unchanged, and the remote file holds its bytes
C14_Witness ==
    \E u, v \in UnitIds :
        /\ u < v
        /\ units[u].ev.kind = "modify"
        /\ units[v].ev = units[u].ev
        /\ DoneOk(units[u]) /\ DoneOk(units[v])
        /\ units[u].data = units[v].data
        /\ local[units[u].ev.Name] = LocalFile(units[u].data)
        /\ RemoteHolds(remote, Mapped(units[u]), units[u].data)

(* C15: when the directory, destination, machine or user flag is empty,    *)
(* startup fails before anything else is done: watch is not run (its       *)
(* globals are not set), no configuration is loaded, nothing is dialed, no *)
(* client is made, no loop is started and nothing is watched.              *)
C15_EmptyFlagStopsStartup ==
    ( \/ flags.directory = ""
      \/ flags.destination = ""
      \/ flags.machine = ""
      \/ flags.user = "" )
    => /\ mainPc \in {"checkFlags", "exited"}
       /\ srcPath = "" /\ destPath = ""
       /\ config = NoConfig
       /\ dialed = ""
       /\ rsftp = "nil"
       /\ ~loops /\ ~watching
       /\ units = <<>>

\* the process has ended on an empty user flag, the other flags being given
C15_Witness ==
    /\ mainPc = "exited"
    /\ flags.user = ""
    /\ flags.directory # "" /\ flags.destination # "" /\ flags.machine # ""

(* C16, as stated: when the configuration supplies an empty host, startup  *)
(* ends in a fatal error and no transport connection is dialed.            *)
C16_EmptyHostFatal ==
    ( /\ mainPc \notin {"checkFlags", "loadConfig"}
      /\ config.IPAddress = "" )
    => dialed = ""

(* C16, amended: when the configuration supplies an empty host, the host   *)
(* defaults to 127.0.0.1: once the key is loaded the transport is dialed   *)
(* at 127.0.0.1 and the configured port (22 when there is none), and       *)
(* startup goes on from there.                                             *)
C16_EmptyHostDefaults ==
    config.IPAddress = ""
    => LET port == IF config.SSHPort # 0 THEN config.SSHPort
                   ELSE DefaultSSHPort
           addr == "127.0.0.1:" \o PortString(port)
       IN  /\ dialed # "" => dialed = addr
           /\ mainPc \in {"newClient", "newWatcher", "watch", "waitDone"}
                 => dialed = addr

\* with no host in the configuration the process has dialed 127.0.0.1:22
\* and is watching
C16_Witness ==
    /\ mainPc = "waitDone"
    /\ watching
    /\ config.IPAddress = ""
    /\ dialed = "127.0.0.1:22"

\* unit u makes a call in this step: its record of calls grows by one
Calls(u) == Len(units'[u].ops) = Len(units[u].ops) + 1

\* the call unit u makes in this step
TheCall(u) == units'[u].ops[Len(units'[u].ops)]

(* C17: a call of a handling unit for P leaves the local file system and   *)
(* every remote file but the one at the mapped path of P as they are; the  *)
(* calls it makes on the remote side are remove, create and write, each on *)
(* the mapped path of P.                                                   *)
C17_HandlingFrame ==
    [][ \A u \in UnitIds :
          Calls(u) =>
              /\ local' = local
              /\ \A p \in RemotePaths \ {Mapped(units[u])} :
                    remote'[p] = remote[p]
              /\ \/ /\ TheCall(u).op \in {"open", "read"}
                    /\ TheCall(u).path = units[u].ev.Name
                    /\ remote' = remote
                 \/ /\ TheCall(u).op \in RemoteOps
                    /\ TheCall(u).path = Mapped(units[u]) ]_vars

\* a.txt has been mirrored; the old remote file of notes.txt and the local
\* files are as they were
C17_Witness ==
    \E u \in UnitIds :
        /\ units[u].ev.Name = "/src/a.txt"
        /\ DoneOk(units[u])
        /\ RemoteHolds(remote, "/dest//src/a.txt", units[u].data)
        /\ remote["/dest//src/notes.txt"] = RemoteFile(0, Old)
        /\ local["/src/a.txt"] = LocalFile(units[u].data)

(* C18: every event the dispatch loop receives starts exactly one handling *)
(* unit: a step that takes an event off the watcher's channel or changes   *)
(* the number of units takes the first waiting event and adds one new unit *)
(* for it, whether or not a unit for the same path and kind exists; no     *)
(* unit is ever removed or given another event.                            *)
C18_OneUnitPerEvent ==
    [][ /\ (Len(units') # Len(units) \/ Len(eventQ') < Len(eventQ)) =>
              /\ eventQ # <<>>
              /\ eventQ' = Tail(eventQ)
              /\ Len(units') = Len(units) + 1
              /\ units'[Len(units')] = NewUnit(Head(eventQ))
        /\ \A u \in UnitIds : units'[u].ev = units[u].ev ]_vars

\* two units have been started for two events with the same path and kind
C18_Witness ==
    /\ Len(units) = 2
    /\ units[1].ev = units[2].ev
    /\ eventQ = <<>>

(* C19: no recovery.  In a Created/Modified/Renamed handling unit a remote *)
(* create, local read or remote write that fails is the unit's last call:  *)
(* the unit ends, failed.  A failed create or read leaves the remote files *)
(* as the remove left them; a failed write leaves at most the first blocks *)
(* of the data in the new file.  A unit that has ended makes no more       *)
(* calls.                                                                  *)
C19_NoRecovery ==
    [][ \A u \in UnitIds :
          /\ units[u].pc = "done" => units'[u].ops = units[u].ops
          /\ ( /\ IsUpdate(units[u])
               /\ Calls(u)
               /\ TheCall(u).op \in {"create", "read", "write"}
               /\ ~TheCall(u).ok )
             => /\ units'[u].pc = "done"
                /\ units'[u].result = "failed"
                /\ TheCall(u).op \in {"create", "read"} => remote' = remote
                /\ TheCall(u).op = "write" =>
                      \/ remote' = remote
                      \/ \E k \in 0 .. Len(units[u].data) - 1 :
                            remote' = [remote EXCEPT
                               ![Mapped(units[u])].data =
                                   WriteAt0(@, Prefix(units[u].data, k))] ]_vars

\* a write has failed part way: the unit has ended, the old remote file is
\* gone and the new one holds the first block only
C19_Witness ==
    \E u \in UnitIds :
        /\ units[u].pc = "done"
        /\ units[u].result = "failed"
        /\ units[u].ops[Len(units[u].ops)] = Op("write", "/dest//src/notes.txt", FALSE)
        /\ units[u].data = Hello
        /\ remote["/dest//src/notes.txt"].exists
        /\ remote["/dest//src/notes.txt"].ino = u
        /\ remote["/dest//src/notes.txt"].data = <<"he">>

(* C20: once startup has succeeded (the client is made and the directory   *)
(* is watched) the process does not stop on its own: the main goroutine    *)
(* stays at its wait on done, the watcher is not closed, the loops keep    *)
(* running and no goroutine has ended the process.                         *)
C20_RunsUntilTerminated ==
    (watching /\ rsftp = "client")
        => /\ mainPc = "waitDone"
           /\ ~closed
           /\ loops
           /\ Alive

\* every event has been handled, one of them with a failure, and the
\* process is still waiting
C20_Witness ==
    /\ watching /\ rsftp = "client"
    /\ mainPc = "waitDone"
    /\ Len(units) = 2
    /\ \A u \in UnitIds : units[u].pc = "done"
    /\ \E u \in UnitIds : units[u].result = "failed"

====
